---------------------------- MODULE Spec2Model ----------------------------
(***************************************************************************)
(* A model of pagerank.py: transition_model, sample_pagerank,              *)
(* iterate_pagerank, has_not_converged and calculate_pr over a fixed link  *)
(* graph (the corpus).                                                     *)
(*                                                                         *)
(* Python floats are modelled as exact rationals <<numerator,              *)
(* denominator>> in lowest terms with a positive denominator.  Rounding    *)
(* of IEEE doubles (relative error about 1e-16) is not modelled; every     *)
(* tolerance the properties mention (1e-9, 1e-3) is far above it.          *)
(***************************************************************************)
EXTENDS Integers, Sequences, FiniteSets

(***************************************************************************)
(* Exact rational arithmetic.                                              *)
(***************************************************************************)
Abs(x) == IF x < 0 THEN 0 - x ELSE x

RECURSIVE GCD(_, _)
GCD(a, b) == IF b = 0 THEN a ELSE GCD(b, a % b)

Lowest(n, d) ==
    LET g == GCD(Abs(n), d) IN <<n \div g, d \div g>>

\* the rational n/d (d > 0) in lowest terms.  Here and below the bound v makes
\* each argument be evaluated once, however often the body reads it.
Rat(n, d) == CHOOSE r \in { Lowest(v[1], v[2]) : v \in {<<n, d>>} } : TRUE

Zero == <<0, 1>>

One == <<1, 1>>

AddValues(a, b) ==
    LET g == GCD(a[2], b[2])
        L == a[2] * (b[2] \div g)
    IN  Rat(a[1] * (L \div a[2]) + b[1] * (L \div b[2]), L)

Add(a, b) == CHOOSE r \in { AddValues(v[1], v[2]) : v \in {<<a, b>>} } : TRUE

Neg(a) == <<0 - a[1], a[2]>>

Sub(a, b) == Add(a, Neg(b))

MulValues(a, b) ==
    LET g1 == GCD(Abs(a[1]), b[2])
        g2 == GCD(Abs(b[1]), a[2])
    IN  <<(a[1] \div g1) * (b[1] \div g2), (a[2] \div g2) * (b[2] \div g1)>>

Mul(a, b) == CHOOSE r \in { MulValues(v[1], v[2]) : v \in {<<a, b>>} } : TRUE

\* a / k for an integer k > 0 (k = 0 is a ZeroDivisionError, decided by the callers)
DivInt(a, k) == Mul(a, <<1, k>>)

AbsRat(a) == <<Abs(a[1]), a[2]>>

IsNeg(a) == a[1] < 0

IsPos(a) == a[1] > 0

\* a <= b
Leq(a, b) == ~IsPos(Sub(a, b))

RECURSIVE SumRat(_, _)
\* the sum of f[k] over k in S
SumRat(f, S) ==
    IF S = {} THEN Zero
    ELSE LET k == CHOOSE x \in S : TRUE IN Add(f[k], SumRat(f, S \ {k}))

(***************************************************************************)
(* Inputs.                                                                 *)
(***************************************************************************)
\* the page identifiers (opaque strings) a corpus may hold
Pages == {"A", "B", "C"}

\* the link graphs crawl can return: every link set holds keys of the same
\* mapping only, and never the page itself
Corpora ==
    UNION { { c \in [K -> SUBSET K] : \A k \in K : k \notin c[k] } : K \in SUBSET Pages }

\* damping factors handed to transition_model (0.85 is DAMPING), some outside [0,1]
Dampings == { <<0 - 1, 2>>, Zero, <<1, 2>>, <<17, 20>>, One, <<2, 1>> }

\* damping factors handed to the estimators; denominators are kept small so
\* that the exact arithmetic of a whole run stays in range
EstimatorDampings == { Zero, <<1, 2>>, One }

InUnitInterval(d) == ~IsNeg(d) /\ Leq(d, One)

\* largest sample count n handed to sample_pagerank
MaxSamples == 2

SampleCounts == (0 - 1) .. MaxSamples

\* values of the rank vectors handed directly to calculate_pr
CurrentValues == { Zero, <<1, 2>>, One }

\* TOLERANCE = 1e-3 = 1 / ToleranceInv
ToleranceInv == 1000

Runs == {1, 2}

(***************************************************************************)
(* An outcome of a call: a returned value or a raised exception.           *)
(***************************************************************************)
Return(v) == [kind |-> "return", value |-> v, error |-> "none"]

Raise(e) == [kind |-> "raise", value |-> <<>>, error |-> e]

(***************************************************************************)
(* transition_model                                                        *)
(***************************************************************************)
RECURSIVE AddLinks(_, _, _)
\* for link in v: tm[link] += damping_factor/n
AddLinks(tm, links, share) ==
    IF links = {} THEN tm
    ELSE LET link == CHOOSE l \in links : TRUE
         IN  AddLinks([tm EXCEPT ![link] = Add(@, share)], links \ {link}, share)

\* transition_model dividing the link share by the number of pages
TransitionModelShareByN(c, page, d) ==
    IF page \notin DOMAIN c THEN Raise("KeyError")
    ELSE
        LET N  == Cardinality(DOMAIN c)
            p  == DivInt(Sub(One, d), N)
            tm == [k \in DOMAIN c |-> p]
        IN  IF c[page] = {}
            THEN Return([pp \in DOMAIN c |-> DivInt(One, N)])
            ELSE Return(AddLinks(tm, c[page], DivInt(d, N)))

\* transition_model without the rule for a page that has no links
TransitionModelNoSink(c, page, d) ==
    IF page \notin DOMAIN c THEN Raise("KeyError")
    ELSE
        LET N  == Cardinality(DOMAIN c)
            p  == DivInt(Sub(One, d), N)
            tm == [k \in DOMAIN c |-> p]
        IN  IF c[page] = {}
            THEN Return(tm)
            ELSE Return(AddLinks(tm, c[page], DivInt(d, Cardinality(c[page]))))

transition_model(c, page, d) ==
    IF page \notin DOMAIN c THEN Raise("KeyError")       \* corpus[page]
    ELSE
        LET n  == Cardinality(c[page])
            N  == Cardinality(DOMAIN c)
            p  == DivInt(Sub(One, d), N)
            tm == [k \in DOMAIN c |-> p]
        IN  IF c[page] = {}
            THEN Return([pp \in DOMAIN c |-> DivInt(One, N)])
            ELSE Return(AddLinks(tm, c[page], DivInt(d, n)))


(***************************************************************************)
(* sample_pagerank                                                         *)
(***************************************************************************)
\* samples.count(k)
Count(samples, k) == Cardinality({ j \in 1 .. Len(samples) : samples[j] = k })

\* a / b for Python ints, b # 0
IntDiv(a, b) == IF b > 0 THEN Rat(a, b) ELSE Rat(0 - a, 0 - b)

\* the ranks with the counts divided by the number of pages
SampleRanksByPages(c, samples, n) ==
    [k \in DOMAIN c |-> IntDiv(Count(samples, k), Cardinality(DOMAIN c))]

\* for k in corpus: pr[k] = samples.count(k)/n
SampleRanks(c, samples, n) == [k \in DOMAIN c |-> IntDiv(Count(samples, k), n)]

\* random.choices(kys, vals, k=1): the pages a draw can yield are those of
\* positive weight
Drawable(tm) == { k \in DOMAIN tm : IsPos(tm[k]) }

(***************************************************************************)
(* calculate_pr, has_not_converged, iterate_pagerank                       *)
(***************************************************************************)
RECURSIVE InnerLoopLinkByN(_, _, _, _, _, _, _)
\* the inner loop dividing a linking page's rank by N, not by its link count
InnerLoopLinkByN(c, d, current, N, page, keys, acc) ==
    IF keys = {} THEN acc
    ELSE LET key   == CHOOSE k \in keys : TRUE
             links == c[key]
             a1    == IF links = {}
                      THEN Add(acc, DivInt(Mul(d, current[key]), N))
                      ELSE acc
             a2    == IF page \in links
                      THEN Add(a1, DivInt(Mul(d, current[key]), N))
                      ELSE a1
         IN  InnerLoopLinkByN(c, d, current, N, page, keys \ {key}, a2)

RECURSIVE InnerLoop(_, _, _, _, _, _, _)
\* for key, links in corpus.items(): the two updates of new[page]
InnerLoop(c, d, current, N, page, keys, acc) ==
    IF keys = {} THEN acc
    ELSE LET key   == CHOOSE k \in keys : TRUE
             links == c[key]
             a1    == IF links = {}
                      THEN Add(acc, DivInt(Mul(d, current[key]), N))
                      ELSE acc
             a2    == IF page \in links
                      THEN Add(a1, DivInt(Mul(d, current[key]), Cardinality(links)))
                      ELSE a1
         IN  InnerLoop(c, d, current, N, page, keys \ {key}, a2)

\* calculate_pr starting every page at 1 - damping_factor, not divided by N
CalculatePrBaseUndivided(c, d, current, N) ==
    [page \in DOMAIN c |->
        InnerLoop(c, d, current, N, page, DOMAIN c, Sub(One, d))]

\* calculate_pr with damping_factor and 1 - damping_factor exchanged
CalculatePrSwapped(c, d, current, N) ==
    [page \in DOMAIN c |->
        InnerLoop(c, Sub(One, d), current, N, page, DOMAIN c, DivInt(d, N))]

calculate_pr(c, d, current, N) ==
    [page \in DOMAIN c |->
        InnerLoop(c, d, current, N, page, DOMAIN c, DivInt(Sub(One, d), N))]

\* numpy.abs(x) > TOLERANCE for a rational x = n/m: n/m > 1/1000 iff
\* n > m/1000 iff n > floor(m/1000), n being an integer
ExceedsTolerance(x) == \E v \in {x} : Abs(v[1]) > v[2] \div ToleranceInv

\* has_not_converged with its random.choice having picked page i
has_not_converged(previous, current, i) ==
    ExceedsTolerance(Sub(current[i], previous[i]))

(***************************************************************************)
(* State.                                                                  *)
(***************************************************************************)
VARIABLES
    corpus,   \* the link graph, built once and read-only thereafter
    tmc,      \* a call of transition_model
    sp,       \* a call of sample_pagerank and its locals
    it,       \* calls of iterate_pagerank and their locals, one per run
    cp        \* a direct call of calculate_pr

vars == <<corpus, tmc, sp, it, cp>>

NoVector == <<>>

TmIdle == [pc |-> "idle", page |-> "", damping |-> Zero, tm |-> NoVector, error |-> "none"]

SpIdle ==
    [pc |-> "idle", damping |-> Zero, n |-> 0, starting_page |-> "", page |-> "",
     i |-> 0, samples |-> <<>>, pr |-> NoVector, error |-> "none"]

ItIdle ==
    [pc |-> "idle", damping |-> Zero, initial |-> NoVector, next |-> NoVector,
     error |-> "none"]

CpIdle == [pc |-> "idle", damping |-> Zero, current |-> NoVector, new |-> NoVector]

Init ==
    /\ corpus \in Corpora
    /\ tmc = TmIdle
    /\ sp = SpIdle
    /\ it = [r \in Runs |-> ItIdle]
    /\ cp = CpIdle

\* no call has been made yet
Idle ==
    /\ tmc.pc = "idle"
    /\ sp.pc = "idle"
    /\ \A r \in Runs : it[r].pc = "idle"
    /\ cp.pc = "idle"

(***************************************************************************)
(* Operations.                                                             *)
(***************************************************************************)
call_transition_model(page, d) ==
    /\ Idle
    /\ LET out == transition_model(corpus, page, d)
       IN  tmc' = IF out.kind = "raise"
                  THEN [TmIdle EXCEPT !.pc = "raised", !.page = page, !.damping = d,
                                      !.error = out.error]
                  ELSE [TmIdle EXCEPT !.pc = "returned", !.page = page, !.damping = d,
                                      !.tm = out.value]
    /\ UNCHANGED <<corpus, sp, it, cp>>

\* lines 90-93: random.choice raises IndexError on an empty list
sample_pagerank(d, n) ==
    /\ Idle
    /\ IF DOMAIN corpus = {}
       THEN sp' = [SpIdle EXCEPT !.pc = "raised", !.damping = d, !.n = n,
                                 !.error = "IndexError"]
       ELSE \E starting_page \in DOMAIN corpus :
                sp' = [SpIdle EXCEPT !.pc = "loop", !.damping = d, !.n = n,
                                     !.starting_page = starting_page,
                                     !.page = starting_page]
    /\ UNCHANGED <<corpus, tmc, it, cp>>

\* lines 95-103: one pass of the body of for i in range(n)
SampleDraw ==
    /\ sp.pc = "loop"
    /\ sp.i < sp.n
    /\ LET tm == transition_model(corpus, sp.page, sp.damping).value
       IN  \E next_page \in Drawable(tm) :
               sp' = [sp EXCEPT !.samples = Append(@, next_page),
                                !.page = next_page,
                                !.i = @ + 1]
    /\ UNCHANGED <<corpus, tmc, it, cp>>

\* lines 105-109: range(n) is exhausted (at once when n <= 0); n_k/n raises
\* ZeroDivisionError when n = 0
SampleFinish ==
    /\ sp.pc = "loop"
    /\ ~(sp.i < sp.n)
    /\ sp' = IF sp.n = 0
             THEN [sp EXCEPT !.pc = "raised", !.error = "ZeroDivisionError"]
             ELSE [sp EXCEPT !.pc = "returned",
                             !.pr = SampleRanks(corpus, sp.samples, sp.n)]
    /\ UNCHANGED <<corpus, tmc, it, cp>>

\* lines 122-127: (1-damping_factor)/N raises ZeroDivisionError when N = 0
StartRun(d) ==
    LET N == Cardinality(DOMAIN corpus)
    IN  IF N = 0
        THEN [ItIdle EXCEPT !.pc = "raised", !.damping = d,
                            !.error = "ZeroDivisionError"]
        ELSE LET initial == [k \in DOMAIN corpus |-> DivInt(One, N)]
             IN  [ItIdle EXCEPT !.pc = "while", !.damping = d,
                                !.initial = initial,
                                !.next = calculate_pr(corpus, d, initial, N)]

iterate_pagerank(d) ==
    /\ Idle
    /\ it' = [it EXCEPT ![1] = StartRun(d)]
    /\ UNCHANGED <<corpus, tmc, sp, cp>>

\* two calls with the same arguments, run side by side
iterate_pagerank_twice(d) ==
    /\ Idle
    /\ it' = [r \in Runs |-> StartRun(d)]
    /\ UNCHANGED <<corpus, tmc, sp, cp>>

\* lines 129-132: has_not_converged picked i and answered True
IterateContinue(r, i) ==
    /\ it[r].pc = "while"
    /\ i \in DOMAIN corpus
    /\ has_not_converged(it[r].initial, it[r].next, i)
    /\ it' = [it EXCEPT ![r].initial = it[r].next,
                        ![r].next = calculate_pr(corpus, it[r].damping, it[r].next,
                                                Cardinality(DOMAIN corpus))]
    /\ UNCHANGED <<corpus, tmc, sp, cp>>

\* lines 129, 133: has_not_converged picked i and answered False
IterateReturn(r, i) ==
    /\ it[r].pc = "while"
    /\ i \in DOMAIN corpus
    /\ ~has_not_converged(it[r].initial, it[r].next, i)
    /\ it' = [it EXCEPT ![r].pc = "returned"]
    /\ UNCHANGED <<corpus, tmc, sp, cp>>

\* one evaluation of the while condition with page i drawn
LoopChoice(r, i) == IterateContinue(r, i) \/ IterateReturn(r, i)

call_calculate_pr(d, current) ==
    /\ Idle
    /\ cp' = [pc |-> "returned", damping |-> d, current |-> current,
              new |-> calculate_pr(corpus, d, current, Cardinality(DOMAIN corpus))]
    /\ UNCHANGED <<corpus, tmc, sp, it>>

Next ==
    \/ \E page \in Pages, d \in Dampings : call_transition_model(page, d)
    \/ \E d \in EstimatorDampings, n \in SampleCounts : sample_pagerank(d, n)
    \/ SampleDraw
    \/ SampleFinish
    \/ \E d \in EstimatorDampings : iterate_pagerank(d)
    \/ \E i \in Pages : IterateContinue(1, i)
    \/ \E i \in Pages : IterateReturn(1, i)
    \/ \E d \in EstimatorDampings, current \in [DOMAIN corpus -> CurrentValues] :
           call_calculate_pr(d, current)

Spec == Init /\ [][Next]_vars


(***************************************************************************)
(* Further specifications.                                                 *)
(***************************************************************************)
IterNext ==
    \/ \E d \in EstimatorDampings : iterate_pagerank(d)
    \/ \E i \in Pages : IterateContinue(1, i)
    \/ \E i \in Pages : IterateReturn(1, i)

\* iterate_pagerank alone; the program never stops inside the while loop, and
\* random.choice picks every page again and again in an unending run
LiveSpec ==
    /\ Init
    /\ [][IterNext]_vars
    /\ \A i \in Pages : SF_vars(LoopChoice(1, i))

PairNext ==
    \/ \E d \in EstimatorDampings : iterate_pagerank_twice(d)
    \/ \E r \in Runs, i \in Pages : IterateContinue(r, i)
    \/ \E r \in Runs, i \in Pages : IterateReturn(r, i)

\* two runs of iterate_pagerank on the same corpus and damping factor
PairSpec == Init /\ [][PairNext]_vars

(***************************************************************************)
(* Properties.                                                             *)
(***************************************************************************)
NumPages == Cardinality(DOMAIN corpus)

TmValid ==
    /\ tmc.pc # "idle"
    /\ tmc.page \in DOMAIN corpus
    /\ InUnitInterval(tmc.damping)

\* C1: for a non-empty graph, a page that is one of its keys and a damping in
\* [0,1], transition_model returns one entry per page: 1/N each when the page
\* has no links; otherwise (1 - damping)/N each, plus damping/|L| for each
\* page of the link set L of the source page.
TransitionModelValues ==
    TmValid =>
        /\ tmc.pc = "returned"
        /\ DOMAIN tmc.tm = DOMAIN corpus
        /\ \A k \in DOMAIN corpus :
               tmc.tm[k] =
                   IF corpus[tmc.page] = {}
                   THEN Rat(1, NumPages)
                   ELSE IF k \in corpus[tmc.page]
                        THEN Add(DivInt(Sub(One, tmc.damping), NumPages),
                                 DivInt(tmc.damping, Cardinality(corpus[tmc.page])))
                        ELSE DivInt(Sub(One, tmc.damping), NumPages)

TransitionModelValuesWitness ==
    /\ TmValid
    /\ tmc.pc = "returned"
    /\ NumPages = 3
    /\ Cardinality(corpus[tmc.page]) = 1
    /\ tmc.damping = <<17, 20>>
    /\ \E k \in corpus[tmc.page] : tmc.tm[k] = <<9, 10>>

\* C2: for a valid (graph, page, damping) the values transition_model
\* returns are all non-negative and sum to 1.
TransitionModelIsDistribution ==
    TmValid =>
        /\ tmc.pc = "returned"
        /\ \A k \in DOMAIN tmc.tm : ~IsNeg(tmc.tm[k])
        /\ SumRat(tmc.tm, DOMAIN tmc.tm) = One

TransitionModelIsDistributionWitness ==
    /\ TmValid
    /\ tmc.pc = "returned"
    /\ NumPages = 3
    /\ \/ corpus[tmc.page] = {} /\ tmc.damping = <<1, 2>>
       \/ Cardinality(corpus[tmc.page]) = 2 /\ tmc.damping = One
    /\ SumRat(tmc.tm, DOMAIN tmc.tm) = One

\* the page that was current when the j-th sample was drawn
CurrentBefore(j) == IF j = 1 THEN sp.starting_page ELSE sp.samples[j - 1]

SpValid == sp.pc # "idle" /\ DOMAIN corpus # {} /\ sp.n >= 1

\* C3: for a non-empty graph, a damping in [0,1] and n >= 1, sample_pagerank
\* makes exactly n draws, each from the transition distribution of the
\* current page and then made the current page; the starting page is not
\* counted; each entry of the result is (times the page was drawn)/n, the
\* entries sum to 1, and for n = 1 one page has rank 1 and the others 0.
SampleCountsDraws ==
    SpValid =>
        /\ sp.pc \in {"loop", "returned"}
        /\ Len(sp.samples) = sp.i
        /\ sp.i <= sp.n
        /\ sp.page = IF sp.i = 0 THEN sp.starting_page ELSE sp.samples[sp.i]
        /\ \A j \in 1 .. sp.i :
               IsPos(transition_model(corpus, CurrentBefore(j), sp.damping).value[sp.samples[j]])
        /\ sp.pc = "returned" =>
               /\ sp.i = sp.n
               /\ DOMAIN sp.pr = DOMAIN corpus
               /\ \A k \in DOMAIN corpus :
                      sp.pr[k] = Rat(Cardinality({ j \in 1 .. sp.n : sp.samples[j] = k }), sp.n)
               /\ SumRat(sp.pr, DOMAIN corpus) = One
               /\ sp.n = 1 =>
                      \E k \in DOMAIN corpus :
                          /\ sp.pr[k] = One
                          /\ \A o \in DOMAIN corpus \ {k} : sp.pr[o] = Zero

SampleCountsDrawsWitness ==
    /\ SpValid
    /\ sp.pc = "returned"
    /\ sp.n = 2
    /\ sp.samples[1] # sp.samples[2]
    /\ sp.starting_page \notin { sp.samples[1], sp.samples[2] }
    /\ sp.pr[sp.starting_page] = Zero
    /\ sp.pr[sp.samples[1]] = <<1, 2>>

IsRankVector(v) ==
    /\ DOMAIN v = DOMAIN corpus
    /\ \A k \in DOMAIN v : ~IsNeg(v[k]) /\ Leq(v[k], One)
    /\ SumRat(v, DOMAIN v) = One

\* C4: for a non-empty graph and a damping in [0,1], every rank vector
\* iterate_pagerank holds (the initial uniform vector and each vector that
\* calculate_pr produces) has all its values in [0,1] and sums to 1.
IterateHoldsRankVectors ==
    (it[1].pc # "idle" /\ DOMAIN corpus # {}) =>
        /\ it[1].pc \in {"while", "returned"}
        /\ IsRankVector(it[1].initial)
        /\ IsRankVector(it[1].next)

IterateHoldsRankVectorsWitness ==
    /\ it[1].pc = "returned"
    /\ NumPages = 3
    /\ it[1].damping = <<1, 2>>
    /\ \E k \in DOMAIN corpus : corpus[k] = {}
    /\ \E k \in DOMAIN corpus : corpus[k] # {}
    /\ \E k \in DOMAIN corpus : it[1].next[k] # Rat(1, NumPages)
    /\ IsRankVector(it[1].next)

\* C5: two runs of iterate_pagerank on the same graph and damping factor
\* return the same rank vector, whatever pages has_not_converged picks.
IterateDeterministic ==
    (it[1].pc = "returned" /\ it[2].pc = "returned") => it[1].next = it[2].next

\* C6: for a non-empty graph and a damping in [0,1], damping = 1 included,
\* every run of iterate_pagerank leaves its while loop and returns, given
\* that every page is picked again and again by the convergence test.
IterateTerminates == (it[1].pc = "while") ~> (it[1].pc = "returned")

\* C6 as amended: the same for every damping in [0,1), damping = 1 excluded.
IterateTerminatesBelowOne ==
    (it[1].pc = "while" /\ it[1].damping # One) ~> (it[1].pc = "returned")

IterateTerminatesBelowOneWitness ==
    /\ it[1].pc = "returned"
    /\ it[1].damping = <<1, 2>>
    /\ NumPages = 3
    /\ it[1].initial # [k \in DOMAIN corpus |-> Rat(1, NumPages)]
    /\ \A i \in DOMAIN corpus : ~has_not_converged(it[1].initial, it[1].next, i)

\* C7: applying calculate_pr once more to a vector iterate_pagerank returned
\* changes no page's value by more than TOLERANCE.
ReturnedIsFixedPoint ==
    it[1].pc = "returned" =>
        LET again == calculate_pr(corpus, it[1].damping, it[1].next, NumPages)
        IN  \A k \in DOMAIN corpus :
                ~ExceedsTolerance(Sub(again[k], it[1].next[k]))

\* C8: transition_model ends in an error, and returns no distribution, when
\* the page is not a key of the graph, the graph is empty, or the damping is
\* outside [0,1].
TransitionModelRejectsInvalid ==
    (/\ tmc.pc # "idle"
     /\ \/ tmc.page \notin DOMAIN corpus
        \/ DOMAIN corpus = {}
        \/ ~InUnitInterval(tmc.damping))
        => tmc.pc = "raised"

\* C9: sample_pagerank ends in an error, and returns no rank vector, when
\* n < 1 or the graph is empty.
SampleRejectsInvalid ==
    (sp.pc # "idle" /\ (sp.n < 1 \/ DOMAIN corpus = {}))
        => sp.pc \in {"loop", "raised"}

\* contribution(k, page) of the relaxation
Contribution(current, k, page) ==
    IF corpus[k] = {} THEN DivInt(current[k], NumPages)
    ELSE IF page \in corpus[k] THEN DivInt(current[k], Cardinality(corpus[k]))
    ELSE Zero

Relaxation(d, current) ==
    [page \in DOMAIN corpus |->
        Add(DivInt(Sub(One, d), NumPages),
            Mul(d, SumRat([k \in DOMAIN corpus |-> Contribution(current, k, page)],
                          DOMAIN corpus)))]

Uniform == [k \in DOMAIN corpus |-> Rat(1, NumPages)]

\* C10: for a non-empty graph, a damping in [0,1] and any current vector,
\* calculate_pr returns for each page (1 - damping)/N + damping * the sum
\* over all pages k of contribution(k, page), each k counted once;
\* iterate_pagerank starts from the uniform vector 1/N and what it holds as
\* its latest vector, and returns, is the result of such a step.
CalculatePrIsRelaxation ==
    /\ [](cp.pc = "returned" /\ DOMAIN corpus # {}
            => cp.new = Relaxation(cp.damping, cp.current))
    /\ []((it[1].pc \in {"while", "returned"})
            => it[1].next = Relaxation(it[1].damping, it[1].initial))
    /\ [][(it[1].pc = "idle" /\ it'[1].pc # "idle" /\ DOMAIN corpus # {})
            => /\ it'[1].pc = "while"
               /\ it'[1].initial = Uniform
               /\ it'[1].next = Relaxation(it'[1].damping, Uniform)]_vars

CalculatePrIsRelaxationWitness ==
    /\ cp.pc = "returned"
    /\ NumPages = 3
    /\ cp.damping = <<1, 2>>
    /\ \E k \in DOMAIN corpus : corpus[k] = {} /\ cp.current[k] = One
    /\ \E k \in DOMAIN corpus : Cardinality(corpus[k]) = 2 /\ cp.current[k] = <<1, 2>>
    /\ cp.new = Relaxation(cp.damping, cp.current)

=============================================================================
